---- MODULE Spec2Model ----
(***************************************************************************)
(* Memory backend: the Storage Gateway (FirebaseMemoryService), the HTTP   *)
(* route layer, the ElevenLabs webhook receiver and the context tool,      *)
(* modelled over an abstract document store.                               *)
(*                                                                         *)
(* A document's data is a function from field names to values; a field     *)
(* that is absent in JavaScript (undefined) is absent from the DOMAIN.     *)
(* Time stamps (ISO strings in the code, ordered like the clock) are       *)
(* integers; 0 stands for a falsy value a caller may send.                 *)
(***************************************************************************)
EXTENDS Integers, Sequences, FiniteSets, TLC

\* ------------------------------------------------------------- bounds
\* Largest value of the server clock (new Date()).
MaxClock == 2
\* Number of sub-collection documents ever created.
MaxDocs == 2
\* Number of onAuthStateChanged registrations ever made on the AuthService.
MaxListeners == 3

\* -------------------------------------------------- program constants
\* getConversationHistory / getUserStageProgressions default limitCount.
DefaultHistoryLimit == 50
\* getUserContext default limitCount.
DefaultContextLimit == 20
\* ContextTool.execute / POST /api/tools/context default limit.
DefaultToolLimit == 10
\* ContextTool.execute: recent_messages = conversations.slice(-5).
RecentCount == 5
\* ContextTool.execute: content.substring(0, 200).
ContentCut == 200

Users == {"u1", "u2"}
\* Session identifiers are tuples: <<"s1">> names a session a client chose,
\* <<"session_", t>> one made from the clock, <<>> is the empty string.
Sessions == {<<"s1">>}
NoSession == <<>>

\* --------------------------------------------------- JavaScript values
Has(d, f) == f \in DOMAIN d

\* { ...a, ...b }: the fields of b override those of a.
Merge(a, b) == [f \in (DOMAIN a) \cup (DOMAIN b) |-> IF f \in DOMAIN b THEN b[f] ELSE a[f]]

\* const { userUUID, ...rest } = body
Rest(body, f) == [g \in (DOMAIN body) \ {f} |-> body[g]]

\* A faulty test, `f in d`: an empty string passes.
Present(d, f) == f \in DOMAIN d

\* A string field that is present and not "" (JavaScript truthiness).
TruthyStr(d, f) == Has(d, f) /\ d[f] # ""

\* payload.timestamp || new Date().toISOString()
StampOr(d, t) == IF Has(d, "timestamp") /\ d.timestamp # 0 THEN d.timestamp ELSE t

\* The empty object {}.
EmptyObj == [f \in {} |-> 0]

VARIABLES
  now,       \* the server clock
  nextId,    \* number of document identifiers handed out by doc(collection(..))
  profile,   \* users/{u}: the profile document's data, or NoProfile
  docs,      \* the documents of the sub-collections under users/{u}
  env,       \* process.env and the service the server started with
  clearOp,   \* the clearUserData call in flight, if any
  req,       \* the last request answered
  resp,      \* its response
  calls,     \* the Storage Gateway methods that request called
  stored,    \* history: conversations stored with success, no clear since
  cleared,   \* history: per user, how the last clearUserData ended
  auth       \* the AuthService object: its fields, and what its listeners saw

vars == <<now, nextId, profile, docs, env, clearOp, req, resp, calls, stored, cleared, auth>>

NoProfile == [exists |-> FALSE]
ProfileOf(data) == [exists |-> TRUE, data |-> data]

\* An identifier a caller may send that is not one path segment: the document
\* store splits every path argument of collection(db, 'users', userUUID, ..)
\* and doc(db, 'users', userUUID) at '/' and drops the empty pieces.
NestedId == "u1/sessions/s1"
PathSegments(u) == IF u = NestedId THEN <<"u1", "sessions", "s1">> ELSE <<u>>

\* The user document, session and sub-collection that the path
\* users/{u}/{coll}, or users/{u}/sessions/{sid}/{coll}, names.
Located(u, coll, sid) ==
  LET segs == PathSegments(u)
  IN IF Len(segs) = 3 /\ segs[2] = "sessions" /\ sid = NoSession
     THEN [user |-> segs[1], coll |-> coll, sid |-> <<segs[3]>>]
     ELSE [user |-> u, coll |-> coll, sid |-> sid]

\* A document of a sub-collection: users/{user}/{coll}/{id}, or
\* users/{user}/sessions/{sid}/{coll}/{id} when sid # NoSession.
Doc(u, coll, sid, id, data) == Merge(Located(u, coll, sid), [id |-> id, data |-> data])

DocsOf(u, coll, sid) ==
  {d \in docs : [user |-> d.user, coll |-> d.coll, sid |-> d.sid] = Located(u, coll, sid)}


\* ------------------------------------------------- the document store
\* A field whose JavaScript value is undefined; setDoc rejects such data.
Undefined == "<undefined>"
StrFields == {"agent_id", "conversation_id"}
HasUndefined(d) == \E f \in (DOMAIN d) \cap StrFields : d[f] = Undefined

Min(a, b) == IF a < b THEN a ELSE b

\* All orders in which a snapshot may list the documents S.
Orders(S) == {s \in [1..Cardinality(S) -> S] : \A i, j \in 1..Cardinality(S) : i # j => s[i] # s[j]}

\* A faulty query: orderBy('timestamp') without 'desc', least first.
QueryAscending(S, n) ==
  LET T == {d \in S : Has(d.data, "timestamp")}
      sorted == {s \in Orders(T) : \A i, j \in 1..Cardinality(T) :
                    i < j => s[i].data.timestamp =< s[j].data.timestamp}
  IN {SubSeq(s, 1, Min(n, Cardinality(T))) : s \in sorted}

\* query(ref, orderBy('timestamp', 'desc'), limit(n)): documents that have the
\* field, greatest first, at most n of them; documents with equal time stamps
\* come in the order of their (random) identifiers.
QueryDesc(S, n) ==
  LET T == {d \in S : Has(d.data, "timestamp")}
      sorted == {s \in Orders(T) : \A i, j \in 1..Cardinality(T) :
                    i < j => s[i].data.timestamp >= s[j].data.timestamp}
  IN {SubSeq(s, 1, Min(n, Cardinality(T))) : s \in sorted}

\* { id: doc.id, ...doc.data() }
Entry(d) == Merge([id |-> d.id], d.data)
Entries(s) == [i \in 1..Len(s) |-> Entry(s[i])]

\* ---------------------------------- Storage Gateway (FirebaseMemoryService)
\* Every method takes `ok`: whether the calls it makes on the underlying
\* document store succeed (FALSE: the store throws).
Failure(msg) == [success |-> FALSE, error |-> msg]

\* doc(collection(...)) hands out a fresh identifier; setDoc writes the document.
SetNewDoc(u, coll, sid, data, ok) ==
  IF ok /\ ~HasUndefined(data)
  THEN [docs |-> docs \cup {Doc(u, coll, sid, nextId + 1, data)}, nextId |-> nextId + 1,
        profile |-> profile, result |-> [success |-> TRUE, id |-> nextId + 1]]
  ELSE [docs |-> docs, nextId |-> nextId, profile |-> profile, result |-> Failure("store error")]

\* A faulty stamping: the payload spread after the server's fields.
PayloadOverStamp(d, sid) == Merge([sessionId |-> sid, timestamp |-> now, createdAt |-> now], d)

\* The fields every sub-collection write attaches after the payload's own.
Stamped(d) == Merge(d, [timestamp |-> StampOr(d, now), createdAt |-> now])
SessionStamped(d, sid) == Merge(d, [sessionId |-> sid, timestamp |-> StampOr(d, now), createdAt |-> now])

\* A faulty write: the document is named by its time stamp, so that a second
\* write at the same time replaces the first.
storeConversationByTime(u, d, ok) ==
  IF ok /\ ~HasUndefined(d)
  THEN [docs |-> {e \in docs : ~(e.user = u /\ e.coll = "conversations" /\ e.data.createdAt = now)}
                   \cup {Doc(u, "conversations", NoSession, nextId + 1, Stamped(d))},
        nextId |-> nextId + 1, profile |-> profile, result |-> [success |-> TRUE, id |-> nextId + 1]]
  ELSE [docs |-> docs, nextId |-> nextId, profile |-> profile, result |-> [success |-> FALSE, error |-> "store error"]]

storeConversation(u, d, ok) == SetNewDoc(u, "conversations", NoSession, Stamped(d), ok)

storeStageProgression(u, d, ok) == SetNewDoc(u, "stages", NoSession, Stamped(d), ok)

storeUserContext(u, d, ok) == SetNewDoc(u, "context", NoSession, Stamped(d), ok)

storeSessionStageProgression(u, sid, d, ok) == SetNewDoc(u, "stages", sid, SessionStamped(d, sid), ok)

storeSessionUserContext(u, sid, d, ok) == SetNewDoc(u, "context", sid, SessionStamped(d, sid), ok)

storeBreakthroughMoment(u, sid, d, ok) == SetNewDoc(u, "breakthroughs", sid, SessionStamped(d, sid), ok)

storeTherapeuticTheme(u, sid, d, ok) == SetNewDoc(u, "themes", sid, SessionStamped(d, sid), ok)

\* setDoc(profileRef, {...profileData, lastUpdated}, { merge: true })
ProfileFields(d) == Merge(d, [lastUpdated |-> now])

\* A faulty profile write: setDoc without { merge: true }.
storeUserProfileReplacing(u, d, ok) ==
  IF ok
  THEN [docs |-> docs, nextId |-> nextId,
        profile |-> [profile EXCEPT ![u] = ProfileOf(Merge(d, [lastUpdated |-> now]))],
        result |-> [success |-> TRUE]]
  ELSE [docs |-> docs, nextId |-> nextId, profile |-> profile, result |-> [success |-> FALSE, error |-> "store error"]]

storeUserProfile(u, d, ok) ==
  IF ok
  THEN [docs |-> docs, nextId |-> nextId,
        profile |-> [profile EXCEPT ![u] =
                       ProfileOf(Merge(IF profile[u].exists THEN profile[u].data ELSE EmptyObj,
                                       ProfileFields(d)))],
        result |-> [success |-> TRUE]]
  ELSE [docs |-> docs, nextId |-> nextId, profile |-> profile, result |-> Failure("store error")]

\* limit(n) throws unless n is a positive number; the method catches it.
getConversationHistory(u, n, ok) ==
  IF ok /\ n >= 1 THEN {Entries(s) : s \in QueryDesc(DocsOf(u, "conversations", NoSession), n)} ELSE {<<>>}

getUserStageProgressions(u, n, ok) ==
  IF ok /\ n >= 1 THEN {Entries(s) : s \in QueryDesc(DocsOf(u, "stages", NoSession), n)} ELSE {<<>>}

getUserContext(u, n, ok) ==
  IF ok /\ n >= 1 THEN {Entries(s) : s \in QueryDesc(DocsOf(u, "context", NoSession), n)} ELSE {<<>>}

\* The profile's data, or null (here NoProfile).
getUserProfile(u, ok) == IF ok /\ profile[u].exists THEN profile[u] ELSE NoProfile

\* getDocs(collectionRef) without orderBy: every document, ordered by its
\* identifier, which is random: any order.
Listing(u, coll, sid) == {Entries(s) : s \in Orders(DocsOf(u, coll, sid))}

SessionPart(u, sid, dataType, key) ==
  IF dataType \in {"all", key}
  THEN {[k \in {key} |-> l] : l \in Listing(u, key, sid)}
  ELSE {EmptyObj}

\* A faulty read: on a failure, the lists gathered so far are returned.
getSessionDataPartial(u, sid, dataType, ok) ==
  IF ok
  THEN {Merge(Merge(a, b), Merge(c, d)) :
          a \in SessionPart(u, sid, dataType, "stages"),
          b \in SessionPart(u, sid, dataType, "context"),
          c \in SessionPart(u, sid, dataType, "breakthroughs"),
          d \in SessionPart(u, sid, dataType, "themes")}
  ELSE SessionPart(u, sid, dataType, "stages")

getSessionData(u, sid, dataType, ok) ==
  IF ok
  THEN {Merge(Merge(a, b), Merge(c, d)) :
          a \in SessionPart(u, sid, dataType, "stages"),
          b \in SessionPart(u, sid, dataType, "context"),
          c \in SessionPart(u, sid, dataType, "breakthroughs"),
          d \in SessionPart(u, sid, dataType, "themes")}
  ELSE {EmptyObj}

\* A faulty session lookup: no identifier.
NoCurrentSession(u) == NoSession

\* `session_${today}_${Date.now()}`: a name made of the clock alone.
getCurrentSessionId(u) == <<"session_", now>>


\* A faulty snapshot: a getDocs whose documents are never put into the batch.
clearSnapshotEmpty(u, coll) == {}

\* clearUserData: the identifiers its getDocs(collection) puts into the batch.
clearSnapshot(u, coll) == {d.id : d \in DocsOf(u, coll, NoSession)}

\* A faulty commit: the batch without batch.delete(userRef).
clearCommitKeepingProfile(u, ids) ==
  [profile |-> profile, docs |-> {d \in docs : d.id \notin ids}]

\* clearUserData: batch.commit() deletes the user document and the batched ones.
\* For an identifier that is no user document's, doc(db, 'users', u) names a
\* document that holds no profile.
clearCommit(u, ids) ==
  [profile |-> IF u \in Users THEN [profile EXCEPT ![u] = NoProfile] ELSE profile,
   docs |-> {d \in docs : d.id \notin ids}]

\* ----------------------------------------- the server's memoryService
\* The service the server started with: the gateway, or one of the two
\* stand-ins it builds when the gateway cannot be imported or constructed.
Services == {"firebase", "unavailable", "initfailed"}
MockError == IF env.service = "unavailable" THEN "Service unavailable" ELSE "Service initialization failed"
MockWrite == [docs |-> docs, nextId |-> nextId, profile |-> profile, result |-> Failure(MockError)]
MockSessionData == [stages |-> <<>>, contexts |-> <<>>, breakthroughs |-> <<>>, themes |-> <<>>]
MockSessionId == <<"session-", now>>

OnService(real, mock) == IF env.service = "firebase" THEN real ELSE mock

\* ------------------------------------------------------- HTTP headers
\* A header value is a sequence of tokens; an absent header is absent from
\* the DOMAIN of the headers.
StartsWith(h, tok) == Len(h) >= 1 /\ h[1] = tok
\* String.prototype.includes
Includes(h, s) == \E i \in 0..(Len(h) - Len(s)) : SubSeq(h, i + 1, i + Len(s)) = s
TruthySeq(d, f) == Has(d, f) /\ d[f] # <<>>

\* A faulty middleware: any Authorization header passes.
verifyTokenAnyScheme(headers) == env.dev \/ Has(headers, "authorization")

\* verifyToken: TRUE when the request goes on to the route.
verifyToken(headers) ==
  \/ env.dev
  \/ (Has(headers, "authorization") /\ StartsWith(headers.authorization, "Bearer "))

\* ------------------------------------------------------- route layer
\* What a handler does: the store it leaves, its response, the gateway
\* methods it called.
Reply(status, body) ==
  [docs |-> docs, nextId |-> nextId, profile |-> profile,
   resp |-> [status |-> status, body |-> body], calls |-> <<>>]

\* res.json(result) after one gateway write.
Forward(out, method) ==
  [docs |-> out.docs, nextId |-> out.nextId, profile |-> out.profile,
   resp |-> [status |-> 200, body |-> out.result], calls |-> <<method>>]

\* res.json(value) after one gateway read.
Answer(value, method) ==
  [docs |-> docs, nextId |-> nextId, profile |-> profile,
   resp |-> [status |-> 200, body |-> value], calls |-> <<method>>]

MissingUser == [error |-> "userUUID is required"]

PostConversationRoute(headers, body, ok) ==
  IF ~verifyToken(headers) THEN Reply(401, [error |-> "No auth token provided"])
  ELSE IF ~TruthyStr(body, "userUUID") THEN Reply(400, MissingUser)
  ELSE Forward(OnService(storeConversation(body.userUUID, Rest(body, "userUUID"), ok), MockWrite),
               "storeConversation")

PostStageRoute(body, ok) ==
  IF ~TruthyStr(body, "userUUID") THEN Reply(400, MissingUser)
  ELSE Forward(OnService(storeStageProgression(body.userUUID, Rest(body, "userUUID"), ok), MockWrite),
               "storeStageProgression")

PostProfileRoute(body, ok) ==
  IF ~TruthyStr(body, "userUUID") THEN Reply(400, MissingUser)
  ELSE Forward(OnService(storeUserProfile(body.userUUID, Rest(body, "userUUID"), ok), MockWrite),
               "storeUserProfile")

PostContextRoute(body, ok) ==
  IF ~TruthyStr(body, "userUUID") THEN Reply(400, MissingUser)
  ELSE Forward(OnService(storeUserContext(body.userUUID, Rest(body, "userUUID"), ok), MockWrite),
               "storeUserContext")

PostSessionStageRoute(sid, body, ok) ==
  IF ~TruthyStr(body, "userUUID") THEN Reply(400, MissingUser)
  ELSE Forward(OnService(storeSessionStageProgression(body.userUUID, sid, Rest(body, "userUUID"), ok), MockWrite),
               "storeSessionStageProgression")

PostSessionContextRoute(sid, body, ok) ==
  IF ~TruthyStr(body, "userUUID") THEN Reply(400, MissingUser)
  ELSE Forward(OnService(storeSessionUserContext(body.userUUID, sid, Rest(body, "userUUID"), ok), MockWrite),
               "storeSessionUserContext")

PostSessionBreakthroughRoute(sid, body, ok) ==
  IF ~TruthyStr(body, "userUUID") THEN Reply(400, MissingUser)
  ELSE Forward(OnService(storeBreakthroughMoment(body.userUUID, sid, Rest(body, "userUUID"), ok), MockWrite),
               "storeBreakthroughMoment")

PostSessionThemeRoute(sid, body, ok) ==
  IF ~TruthyStr(body, "userUUID") THEN Reply(400, MissingUser)
  ELSE Forward(OnService(storeTherapeuticTheme(body.userUUID, sid, Rest(body, "userUUID"), ok), MockWrite),
               "storeTherapeuticTheme")

\* parseInt of a query value given as its decimal digits.
RECURSIVE ParseInt(_)
ParseInt(s) == IF Len(s) = 0 THEN 0 ELSE 10 * ParseInt(SubSeq(s, 1, Len(s) - 1)) + s[Len(s)]

\* const { limit = dflt } = req.query; parseInt(limit)
QueryLimit(query, dflt) == IF Has(query, "limit") THEN ParseInt(query.limit) ELSE dflt

\* The values res.json may send for one read; the snapshot's order decides which.
GetConversationRoute(u, query, ok) ==
  {Answer(l, "getConversationHistory") :
     l \in OnService(getConversationHistory(u, QueryLimit(query, DefaultHistoryLimit), ok), {<<>>})}

GetStagesRoute(u, query, ok) ==
  {Answer(l, "getUserStageProgressions") :
     l \in OnService(getUserStageProgressions(u, QueryLimit(query, DefaultHistoryLimit), ok), {<<>>})}

GetContextRoute(u, query, ok) ==
  {Answer(l, "getUserContext") :
     l \in OnService(getUserContext(u, QueryLimit(query, DefaultContextLimit), ok), {<<>>})}

GetProfileRoute(u, ok) ==
  LET p == OnService(getUserProfile(u, ok), NoProfile)
      out == Answer(p, "getUserProfile")
  IN IF p.exists THEN [out EXCEPT !.resp = [status |-> 200, body |-> p.data]]
     ELSE [out EXCEPT !.resp = [status |-> 404, body |-> [error |-> "Profile not found"]]]

GetSessionRoute(sid, query, ok) ==
  IF ~TruthyStr(query, "userUUID") THEN {Reply(400, MissingUser)}
  ELSE {Answer(v, "getSessionData") :
          v \in OnService(getSessionData(query.userUUID, sid,
                                         IF Has(query, "dataType") THEN query.dataType ELSE "all", ok),
                          {MockSessionData})}

GetCurrentSessionRoute(u) ==
  Answer([sessionId |-> OnService(getCurrentSessionId(u), MockSessionId)], "getCurrentSessionId")


\* -------------------------------------------------- webhook receiver
\* ELEVENLABS_WEBHOOK_SECRET when it is set, as a sequence of tokens.
Secret == <<"k1", "k2">>

\* req.headers['x-elevenlabs-signature'] || req.headers['authorization'];
\* <<>> when neither is there. The field `signature` is x-elevenlabs-signature.
ProvidedSecret(headers) ==
  IF TruthySeq(headers, "signature") THEN headers.signature
  ELSE IF TruthySeq(headers, "authorization") THEN headers.authorization
  ELSE <<>>

\* A faulty check: only a header that is present and wrong is refused.
SecretCheckLenient(headers) ==
  \/ env.secret = <<>>
  \/ ProvidedSecret(headers) = <<>>
  \/ Includes(ProvidedSecret(headers), env.secret)

\* TRUE when the request passes the secret check.
SecretCheck(headers) ==
  \/ env.secret = <<>>
  \/ (ProvidedSecret(headers) # <<>> /\ Includes(ProvidedSecret(headers), env.secret))

\* How the handler's call of storeConversation ends: the write lands ("ok"),
\* the method returns a failure result ("fail"), or the call rejects
\* ("throw"), which the handler's inner try/catch is there for although
\* neither the gateway nor the stand-ins ever reject.
StoreOutcomes == {"ok", "fail", "throw"}

\* The conversation entry built from a webhook body.
WebhookEntry(body) ==
  [type |-> IF Has(body, "message_type") /\ body.message_type = "user_message" THEN "user" ELSE "assistant",
   content |-> body.message,
   agent_id |-> IF Has(body, "agent_id") THEN body.agent_id ELSE Undefined,
   conversation_id |-> IF Has(body, "conversation_id") THEN body.conversation_id ELSE Undefined,
   timestamp |-> StampOr(body, now),
   metadata |-> "elevenlabs_webhook"]

\* A faulty handler: the stored result is sent back instead of the fixed
\* acknowledgement.
WebhookRelay(headers, body, outcome) ==
  IF ~SecretCheck(headers) THEN Reply(401, [error |-> "Unauthorized webhook request"])
  ELSE IF TruthyStr(body, "user_id") /\ TruthyStr(body, "message")
  THEN Forward(OnService(storeConversation(body.user_id, WebhookEntry(body), outcome = "ok"), MockWrite),
               "storeConversation")
  ELSE Reply(200, [success |-> TRUE, message |-> "Webhook processed"])

\* A faulty handler: an empty message is stored too.
WebhookEager(headers, body, outcome) ==
  IF ~SecretCheck(headers) THEN Reply(401, [error |-> "Unauthorized webhook request"])
  ELSE LET ack == [status |-> 200, body |-> [success |-> TRUE, message |-> "Webhook processed"]]
       IN IF TruthyStr(body, "user_id") /\ Has(body, "message")
          THEN [Forward(OnService(storeConversation(body.user_id, WebhookEntry(body), outcome = "ok"),
                                  MockWrite),
                        "storeConversation") EXCEPT !.resp = ack]
          ELSE Reply(200, ack.body)

WebhookRoute(headers, body, outcome) ==
  IF ~SecretCheck(headers) THEN Reply(401, [error |-> "Unauthorized webhook request"])
  ELSE LET ack == [status |-> 200, body |-> [success |-> TRUE, message |-> "Webhook processed"]]
       IN IF TruthyStr(body, "user_id") /\ TruthyStr(body, "message")
          THEN IF outcome = "throw"
               THEN [Reply(200, ack.body) EXCEPT !.calls = <<"storeConversation">>]
               ELSE [Forward(OnService(storeConversation(body.user_id, WebhookEntry(body), outcome = "ok"),
                                       MockWrite),
                             "storeConversation") EXCEPT !.resp = ack]
          ELSE Reply(200, ack.body)


\* ------------------------------------------------------- ContextTool
\* Message texts. LongText stands for a text of 201 characters that mentions
\* "fragment"; CutText for its first 200 characters followed by "...".
LongText == "fragment (201 characters)"
CutText == "fragment (200 characters)..."
TextLen(c) == IF c = LongText THEN ContentCut + 1 ELSE 11

\* The theme keywords a (lower-cased) text includes.
Keywords(c) ==
  IF c = LongText THEN {"fragment"}
  ELSE IF c \in {"integration", "contradiction", "completion"} THEN {c}
  ELSE {}

ThemeOrder == <<"contradiction", "completion", "fragment", "integration">>
ThemeLabel(k) ==
  CASE k = "contradiction" -> "contradictions/tensions"
    [] k = "completion" -> "completion work"
    [] k = "fragment" -> "fragmentation"
    [] OTHER -> "integration"

\* { key: d[f] }, or {} when d has no f (JSON drops an undefined value).
Opt(d, f, key) == IF Has(d, f) THEN [k \in {key} |-> d[f]] ELSE EmptyObj

\* msg.content?.substring(0, 200) + (msg.content?.length > 200 ? '...' : '')
CutContent(msg) ==
  IF ~Has(msg, "content") THEN "undefined"
  ELSE IF TextLen(msg.content) > ContentCut THEN CutText
  ELSE msg.content

RecentMessage(msg) ==
  Merge(Merge(Opt(msg, "type", "type"), [content |-> CutContent(msg)]),
        Merge(Opt(msg, "stage", "stage"), Opt(msg, "timestamp", "timestamp")))

\* [...new Set(s)]: first occurrences, in order.
RECURSIVE Dedup(_)
Dedup(s) ==
  IF Len(s) = 0 THEN <<>>
  ELSE LET r == Dedup(SubSeq(s, 1, Len(s) - 1))
       IN IF \E i \in 1..Len(r) : r[i] = s[Len(s)] THEN r ELSE Append(r, s[Len(s)])

IsUserMsg(c) == Has(c, "type") /\ c.type = "user"
IsAssistantMsg(c) == Has(c, "type") /\ c.type = "assistant"
HasStage(c) == TruthyStr(c, "stage")

generateConversationSummary(conversations) ==
  IF Len(conversations) = 0 THEN [text |-> "No previous conversation history found."]
  ELSE LET staged == SelectSeq(conversations, HasStage)
           mentioned(k) == \E i \in 1..Len(conversations) :
                              Has(conversations[i], "content") /\ k \in Keywords(conversations[i].content)
           themes == SelectSeq(ThemeOrder, mentioned)
       IN [text |-> "Previous sessions",
           user |-> Len(SelectSeq(conversations, IsUserMsg)),
           assistant |-> Len(SelectSeq(conversations, IsAssistantMsg)),
           stages |-> Dedup([i \in 1..Len(staged) |-> staged[i].stage]),
           themes |-> [i \in 1..Len(themes) |-> ThemeLabel(themes[i])]]

\* conversations.slice(-5)
LastFew(s) == SubSeq(s, Len(s) - Min(RecentCount, Len(s)) + 1, Len(s))

ConversationSection(conversations) ==
  [total |-> Len(conversations),
   recent_messages |-> [i \in 1..Len(LastFew(conversations)) |-> RecentMessage(LastFew(conversations)[i])],
   summary |-> generateConversationSummary(conversations)]

\* { key: p[f1] || p[f2] } for string fields, {} when the value is undefined.
OrStr(p, f1, f2, key) ==
  IF TruthyStr(p, f1) THEN [k \in {key} |-> p[f1]] ELSE Opt(p, f2, key)

\* The same for time stamps (0 is falsy).
OrNum(p, f1, f2, key) ==
  IF Has(p, f1) /\ p[f1] # 0 THEN [k \in {key} |-> p[f1]] ELSE Opt(p, f2, key)

ProfileSection(p) ==
  Merge(Merge(OrStr(p, "symbolicName", "name", "symbolic_name"),
              OrStr(p, "currentStage", "lastStage", "current_stage")),
        Merge(OrNum(p, "registrationDate", "createdAt", "registration_date"),
              [session_count |-> IF Has(p, "sessionCount") THEN p.sessionCount ELSE 0,
               themes |-> IF Has(p, "recurring_themes") THEN p.recurring_themes ELSE <<>>]))

\* result.context.profile?.current_stage || default
DefaultStage == "(.)"
StagesSection(context, stages) ==
  [current_stage |-> IF Has(context, "profile") /\ TruthyStr(context.profile, "current_stage")
                     THEN context.profile.current_stage ELSE DefaultStage,
   progression_notes |-> "Stage progression tracking active",
   total_progressions |-> Len(stages)]

\* sessionData[key] || []
ListOr(sessionData, key) == IF Has(sessionData, key) THEN sessionData[key] ELSE <<>>

\* Array.prototype.join writes an undefined element as the empty string.
ThemeName(t) == IF TruthyStr(t, "theme") THEN t.theme ELSE IF Has(t, "name") THEN t.name ELSE ""
StageName(x) == IF Has(x, "stage") THEN x.stage ELSE ""

generateSessionSummary(sessionData) ==
  LET sp == ListOr(sessionData, "stage_progressions")
      bm == ListOr(sessionData, "breakthrough_moments")
      tt == ListOr(sessionData, "therapeutic_themes")
      uc == ListOr(sessionData, "user_context")
      parts ==
        (IF Len(sp) > 0 THEN <<[part |-> "CSS stages in this session", stages |-> [i \in 1..Len(sp) |-> StageName(sp[i])]]>> ELSE <<>>)
        \o (IF Len(bm) > 0 THEN <<[part |-> "breakthrough moment(s) identified", count |-> Len(bm)]>> ELSE <<>>)
        \o (IF Len(tt) > 0 THEN <<[part |-> "Therapeutic themes", themes |-> [i \in 1..Len(tt) |-> ThemeName(tt[i])]]>> ELSE <<>>)
        \o (IF Len(uc) > 0 THEN <<[part |-> "context entries recorded", count |-> Len(uc)]>> ELSE <<>>)
  IN IF Len(parts) > 0 THEN parts ELSE <<[part |-> "New session, no data recorded yet."]>>

SessionSection(sid, sessionData) ==
  [session_id |-> sid,
   stage_progressions |-> ListOr(sessionData, "stage_progressions"),
   user_context |-> ListOr(sessionData, "user_context"),
   breakthrough_moments |-> ListOr(sessionData, "breakthrough_moments"),
   therapeutic_themes |-> ListOr(sessionData, "therapeutic_themes"),
   summary |-> generateSessionSummary(sessionData)]

generateInstructions(context) ==
  (IF Has(context, "conversations") /\ Has(context.conversations, "total") /\ context.conversations.total > 0
   THEN <<[say |-> "Reference previous conversation when relevant."],
          [say |-> "Build upon established symbolic themes and patterns."]>>
   ELSE <<>>)
  \o (IF Has(context, "profile") /\ TruthyStr(context.profile, "symbolic_name")
      THEN <<[say |-> "Address user by their symbolic name", name |-> context.profile.symbolic_name]>>
      ELSE <<>>)
  \o (IF Has(context, "profile") /\ TruthyStr(context.profile, "current_stage")
      THEN <<[say |-> "Continue from CSS stage", stage |-> context.profile.current_stage]>>
      ELSE <<>>)
  \o <<[say |-> "Acknowledge conversation continuity naturally in your response."]>>


Wanted(t, category) == t \in {category, "all"}

Categories == {"conversation", "profile", "stages", "session"}
\* How one lookup of the tool goes: "ok"; "fail", the document store throws
\* inside the gateway method, which catches it; "throw", the service method
\* itself throws, which no method of FirebaseMemoryService does.
Modes == [Categories -> {"ok", "fail", "throw"}]
GatewayModes == [Categories -> {"ok", "fail"}]
AllOk == [c \in Categories |-> "ok"]

ErrorMarker(key, msg) == [k \in {key} |-> [error |-> msg]]

ToolSessionId(params) ==
  IF TruthySeq(params, "session_id") THEN params.session_id ELSE getCurrentSessionId(params.user_id)

\* const { ..., limit = 10 } = parameters: the limit execute hands to the
\* gateway's reads, as it came.
ToolLimit(params) == IF Has(params, "limit") THEN params.limit ELSE DefaultToolLimit

\* ContextTool.execute on the gateway: the results it may return.
execute(params, mode) ==
  IF ~TruthyStr(params, "user_id") THEN {[success |-> FALSE, error |-> "User ID is required"]}
  ELSE
  LET uid == params.user_id
      t == IF Has(params, "context_type") THEN params.context_type ELSE "all"
      lim == ToolLimit(params)
      sid == ToolSessionId(params)
      convParts ==
        IF ~Wanted(t, "conversation") THEN {EmptyObj}
        ELSE IF mode.conversation = "throw"
             THEN {ErrorMarker("conversations", "Failed to retrieve conversations")}
        ELSE {[conversations |-> ConversationSection(l)] :
                l \in getConversationHistory(uid, lim, mode.conversation = "ok")}
      profPart ==
        IF ~Wanted(t, "profile") THEN EmptyObj
        ELSE IF mode.profile = "throw" THEN ErrorMarker("profile", "Failed to retrieve profile")
        ELSE LET p == getUserProfile(uid, mode.profile = "ok")
             IN IF p.exists THEN [profile |-> ProfileSection(p.data)] ELSE EmptyObj
      stageParts ==
        IF ~Wanted(t, "stages") THEN {EmptyObj}
        ELSE IF mode.stages = "throw" THEN {ErrorMarker("stages", "Failed to retrieve stage data")}
        ELSE {[stages |-> StagesSection(profPart, l)] :
                l \in getUserStageProgressions(uid, lim, mode.stages = "ok")}
      sessParts ==
        IF ~(Wanted(t, "session") /\ sid # <<>>) THEN {EmptyObj}
        ELSE IF mode.session = "throw" THEN {ErrorMarker("session", "Failed to retrieve session data")}
        ELSE {[session |-> SessionSection(sid, sd)] :
                sd \in getSessionData(uid, sid, "all", mode.session = "ok")}
      contexts == {Merge(Merge(c, profPart), Merge(st, ss)) :
                     c \in convParts, st \in stageParts, ss \in sessParts}
  IN {[success |-> TRUE,
       data |-> [user_id |-> uid, session_id |-> sid, timestamp |-> now, context |-> ctx],
       instructions |-> generateInstructions(ctx)] : ctx \in contexts}

\* The gateway methods execute calls, in order.
executeCalls(params) ==
  LET t == IF Has(params, "context_type") THEN params.context_type ELSE "all"
  IN (IF TruthySeq(params, "session_id") THEN <<>> ELSE <<"getCurrentSessionId">>)
     \o (IF Wanted(t, "conversation") THEN <<"getConversationHistory">> ELSE <<>>)
     \o (IF Wanted(t, "profile") THEN <<"getUserProfile">> ELSE <<>>)
     \o (IF Wanted(t, "stages") THEN <<"getUserStageProgressions">> ELSE <<>>)
     \o (IF Wanted(t, "session") THEN <<"getSessionData">> ELSE <<>>)

\* A faulty start-up: the stand-in services are handed to the tools route too.
ToolsServiceAlways == TRUE

\* routes/tools.js: the service reference and the tool registry are both set by
\* setFirebaseService, which the server calls only with the gateway.
ToolsServiceSet == env.service = "firebase"
ToolsRegistered == env.service = "firebase"

\* const { user_id, context_type = 'all', limit = 10 } = req.body
ToolParams(body) ==
  Merge(Merge(Opt(body, "user_id", "user_id"),
              [context_type |-> IF Has(body, "context_type") THEN body.context_type ELSE "all"]),
        [limit |-> IF Has(body, "limit") THEN body.limit ELSE DefaultToolLimit])

\* A faulty route: the body is validated before the service and the tool.
ToolsContextRouteBodyFirst(body, mode) ==
  IF ~TruthyStr(body, "user_id") THEN {Reply(400, [error |-> "user_id is required"])}
  ELSE IF ~ToolsServiceSet THEN {Reply(500, [error |-> "Firebase service not initialized"])}
  ELSE IF ~ToolsRegistered THEN {Reply(500, [error |-> "Context tool not available"])}
  ELSE {[Reply(200, r) EXCEPT !.calls = executeCalls(ToolParams(body))] :
          r \in execute(ToolParams(body), mode)}

ToolsContextRoute(body, mode) ==
  IF ~ToolsServiceSet THEN {Reply(500, [error |-> "Firebase service not initialized"])}
  ELSE IF ~ToolsRegistered THEN {Reply(500, [error |-> "Context tool not available"])}
  ELSE IF ~TruthyStr(body, "user_id") THEN {Reply(400, [error |-> "user_id is required"])}
  ELSE {[Reply(200, r) EXCEPT !.calls = executeCalls(ToolParams(body))] :
          r \in execute(ToolParams(body), mode)}


\* A faulty reply: the result spread before the route's own fields.
DeleteReplyOwnFieldsLast(result) ==
  [status |-> 200, body |-> Merge(result, [success |-> TRUE, message |-> "User data cleared"])]

\* DELETE /api/memory/user/:userUUID: res.json({ success: true, message, ...result })
DeleteReply(result) ==
  [status |-> 200, body |-> Merge([success |-> TRUE, message |-> "User data cleared"], result)]

\* ------------------------------------------------------- AuthService
\* The signed-in user the auth state carries, or null.
NoUser == "null"
AuthUsers == Users \cup {NoUser}
\* The callbacks a caller hands to onAuthStateChanged.
Callbacks == {"cbA", "cbB"}

\* constructor: currentUser = null, authStateListeners = []. The history
\* fields: subs, the registrations made, each live until the function that
\* onAuthStateChanged returned for it is called; delivered, the listener
\* calls of the last auth-state change, each with the currentUser it saw.
AuthServiceNew ==
  [currentUser |-> NoUser, authStateListeners |-> <<>>, subs |-> <<>>, delivered |-> <<>>]

\* ----------------------------------------------------- request inputs
UserFields == {EmptyObj, [userUUID |-> ""], [userUUID |-> "u1"], [userUUID |-> "u2"]}
Bodies(payloads) == {Merge(p, uf) : p \in payloads, uf \in UserFields}

ConvPayloads ==
  {[type |-> "user", content |-> "hi"],
   [type |-> "assistant", content |-> "integration", stage |-> "A", timestamp |-> 1],
   [content |-> LongText, id |-> 0, createdAt |-> 0, timestamp |-> 0]}
StagePayloads == {[stage |-> "A"], [stage |-> "B", timestamp |-> 1, createdAt |-> 0]}
ProfilePayloads == {[name |-> "Ann", currentStage |-> "A"], [symbolicName |-> "Sun", createdAt |-> 0]}
ContextPayloads == {[note |-> "n", createdAt |-> 0]}
SessionStagePayloads == {[stage |-> "A", createdAt |-> 0]}
SessionContextPayloads == {[note |-> "n", createdAt |-> 0]}
BreakthroughPayloads == {[moment |-> "m", createdAt |-> 0]}
ThemePayloads == {[theme |-> "t", createdAt |-> 0, sessionId |-> <<"other">>]}

AuthHeaders == {EmptyObj, [authorization |-> <<"Bearer ", "tok">>], [authorization |-> <<"Basic ", "tok">>]}
LimitQueries == {EmptyObj, [limit |-> <<0>>], [limit |-> <<1>>]}
SessionQueries ==
  {EmptyObj, [userUUID |-> "u1"], [userUUID |-> "u2", dataType |-> "themes"], [userUUID |-> "u1", dataType |-> "summary"]}

WebhookHeaders ==
  {EmptyObj,
   [authorization |-> <<"Bearer ", "k1", "k2">>],
   [authorization |-> <<"k2", "k1">>],
   [signature |-> <<"k1", "k2">>],
   [signature |-> <<"k1">>, authorization |-> <<"k1", "k2">>],
   [signature |-> <<>>, authorization |-> <<"k1", "k2">>]}
WebhookBodies ==
  {EmptyObj,
   [user_id |-> "u1"],
   [message |-> "hi"],
   [user_id |-> "", message |-> "hi"],
   [user_id |-> "u1", message |-> ""],
   [user_id |-> "u1", message |-> "hi"],
   [user_id |-> "u1", message |-> "integration", message_type |-> "user_message",
    agent_id |-> "a1", conversation_id |-> "c1"],
   [user_id |-> "u2", message |-> "hi", agent_id |-> "a1", conversation_id |-> "c1", timestamp |-> 1]}

ToolBodies ==
  {EmptyObj, [user_id |-> ""], [user_id |-> "u1"], [user_id |-> "u2", context_type |-> "all", limit |-> 1],
   [user_id |-> "u1", context_type |-> "profile"], [user_id |-> "u1", context_type |-> "stages"],
   [user_id |-> "u1", context_type |-> "conversation"], [user_id |-> "u1", context_type |-> "session"]}

\* ------------------------------------------------------ specification
Init ==
  /\ now = 1
  /\ nextId = 0
  /\ profile = [u \in Users |-> NoProfile]
  /\ docs = {}
  /\ env \in [service : Services, dev : BOOLEAN, secret : {<<>>, Secret}]
  /\ clearOp = [pc |-> "idle"]
  /\ req = [op |-> "none"]
  /\ resp = [status |-> 0]
  /\ calls = <<>>
  /\ stored = {}
  /\ cleared = [u \in Users |-> "none"]
  /\ auth = AuthServiceNew

\* new Date() moves on.
Tick ==
  /\ now < MaxClock
  /\ now' = now + 1
  /\ UNCHANGED <<nextId, profile, docs, env, clearOp, req, resp, calls, stored, cleared, auth>>

\* A handler's outcome `out` becomes the state; `r` is its request; a write
\* that landed for user u is noted (history).
Handled(out, r, u) ==
  LET landed == out.docs # docs \/ out.profile # profile
  IN /\ out.nextId <= MaxDocs
     /\ docs' = out.docs
     /\ nextId' = out.nextId
     /\ profile' = out.profile
     /\ resp' = out.resp
     /\ calls' = out.calls
     /\ req' = r
     /\ cleared' = IF landed /\ u \in Users THEN [cleared EXCEPT ![u] = "none"] ELSE cleared
     /\ clearOp' = IF landed /\ clearOp.pc # "idle" /\ clearOp.user = u
                   THEN [clearOp EXCEPT !.dirty = TRUE] ELSE clearOp
     /\ UNCHANGED <<now, env, auth>>

BodyUser(body) == IF Has(body, "userUUID") THEN body.userUUID ELSE ""

\* A conversation write is remembered with the payload the gateway was given.
Remember(out, u, d) ==
  stored' = IF out.docs # docs THEN stored \cup {[user |-> u, id |-> out.nextId, d |-> d, at |-> now]} ELSE stored

PostConversation(H, B) ==
  \E headers \in H, body \in B, ok \in BOOLEAN :
    LET out == PostConversationRoute(headers, body, ok)
    IN /\ Handled(out, [op |-> "POST conversation", headers |-> headers, body |-> body, at |-> now], BodyUser(body))
       /\ Remember(out, BodyUser(body), Rest(body, "userUUID"))

PostStage(B) ==
  \E body \in B, ok \in BOOLEAN :
    /\ Handled(PostStageRoute(body, ok), [op |-> "POST stage", body |-> body, at |-> now], BodyUser(body))
    /\ UNCHANGED stored

PostProfile(B) ==
  \E body \in B, ok \in BOOLEAN :
    /\ Handled(PostProfileRoute(body, ok), [op |-> "POST profile", body |-> body, at |-> now], BodyUser(body))
    /\ UNCHANGED stored

PostContext(B) ==
  \E body \in B, ok \in BOOLEAN :
    /\ Handled(PostContextRoute(body, ok), [op |-> "POST context", body |-> body, at |-> now], BodyUser(body))
    /\ UNCHANGED stored

PostSessionStage(B) ==
  \E sid \in Sessions, body \in B, ok \in BOOLEAN :
    /\ Handled(PostSessionStageRoute(sid, body, ok),
               [op |-> "POST session stage", sid |-> sid, body |-> body, at |-> now], BodyUser(body))
    /\ UNCHANGED stored

PostSessionContext(B) ==
  \E sid \in Sessions, body \in B, ok \in BOOLEAN :
    /\ Handled(PostSessionContextRoute(sid, body, ok),
               [op |-> "POST session context", sid |-> sid, body |-> body, at |-> now], BodyUser(body))
    /\ UNCHANGED stored

PostSessionBreakthrough(B) ==
  \E sid \in Sessions, body \in B, ok \in BOOLEAN :
    /\ Handled(PostSessionBreakthroughRoute(sid, body, ok),
               [op |-> "POST session breakthrough", sid |-> sid, body |-> body, at |-> now], BodyUser(body))
    /\ UNCHANGED stored

PostSessionTheme(B) ==
  \E sid \in Sessions, body \in B, ok \in BOOLEAN :
    /\ Handled(PostSessionThemeRoute(sid, body, ok),
               [op |-> "POST session theme", sid |-> sid, body |-> body, at |-> now], BodyUser(body))
    /\ UNCHANGED stored

GetConversation(U, Q) ==
  \E u \in U, query \in Q, ok \in BOOLEAN :
    \E out \in GetConversationRoute(u, query, ok) :
      /\ Handled(out, [op |-> "GET conversation", user |-> u, query |-> query, ok |-> ok, at |-> now], u)
      /\ UNCHANGED stored

GetStages(U, Q) ==
  \E u \in U, query \in Q, ok \in BOOLEAN :
    \E out \in GetStagesRoute(u, query, ok) :
      /\ Handled(out, [op |-> "GET stages", user |-> u, query |-> query, ok |-> ok, at |-> now], u)
      /\ UNCHANGED stored

GetContext(U, Q) ==
  \E u \in U, query \in Q, ok \in BOOLEAN :
    \E out \in GetContextRoute(u, query, ok) :
      /\ Handled(out, [op |-> "GET context", user |-> u, query |-> query, ok |-> ok, at |-> now], u)
      /\ UNCHANGED stored

GetProfile(U) ==
  \E u \in U, ok \in BOOLEAN :
    /\ Handled(GetProfileRoute(u, ok), [op |-> "GET profile", user |-> u, ok |-> ok, at |-> now], u)
    /\ UNCHANGED stored

GetSession(Q) ==
  \E sid \in Sessions, query \in Q, ok \in BOOLEAN :
    \E out \in GetSessionRoute(sid, query, ok) :
      /\ Handled(out, [op |-> "GET session", sid |-> sid, query |-> query, ok |-> ok, at |-> now], "")
      /\ UNCHANGED stored

GetCurrentSession(U) ==
  \E u \in U :
    /\ Handled(GetCurrentSessionRoute(u), [op |-> "GET current-session", user |-> u, at |-> now], u)
    /\ UNCHANGED stored

Webhook(H, B) ==
  \E headers \in H, body \in B, outcome \in StoreOutcomes :
    LET out == WebhookRoute(headers, body, outcome)
        u == IF Has(body, "user_id") THEN body.user_id ELSE ""
    IN /\ Handled(out, [op |-> "POST webhook", headers |-> headers, body |-> body,
                        outcome |-> outcome, at |-> now], u)
       /\ Remember(out, u, IF out.docs # docs THEN WebhookEntry(body) ELSE EmptyObj)

ToolsContext(B, M) ==
  \E body \in B, mode \in M :
    \E out \in ToolsContextRoute(body, mode) :
      /\ Handled(out, [op |-> "POST tools/context", body |-> body, mode |-> mode, at |-> now], "")
      /\ UNCHANGED stored

\* DELETE /api/memory/user/:userUUID, clearUserData up to its first await:
\* the batch is opened and the conversations are read.
DeleteUserStart(U) ==
  \E u \in U, ok \in BOOLEAN :
    /\ clearOp.pc = "idle"
    /\ stored' = {e \in stored : e.user # u}
    /\ IF env.service = "firebase" /\ ok
       THEN /\ clearOp' = [pc |-> "stages", user |-> u, ids |-> clearSnapshot(u, "conversations"), dirty |-> FALSE]
            /\ UNCHANGED <<req, resp, calls>>
       ELSE /\ clearOp' = clearOp
            /\ req' = [op |-> "DELETE user", user |-> u, ok |-> ok]
            /\ resp' = DeleteReply(Failure(OnService("store error", MockError)))
            /\ calls' = <<"clearUserData">>
    /\ UNCHANGED <<now, nextId, profile, docs, env, cleared, auth>>

\* clearUserData reads the stages.
DeleteUserReadStages ==
  \E ok \in BOOLEAN :
    /\ clearOp.pc = "stages"
    /\ IF ok
       THEN /\ clearOp' = [clearOp EXCEPT !.pc = "commit",
                                          !.ids = @ \cup clearSnapshot(clearOp.user, "stages")]
            /\ UNCHANGED <<req, resp, calls>>
       ELSE /\ clearOp' = [pc |-> "idle"]
            /\ req' = [op |-> "DELETE user", user |-> clearOp.user, ok |-> ok]
            /\ resp' = DeleteReply(Failure("store error"))
            /\ calls' = <<"clearUserData">>
    /\ UNCHANGED <<now, nextId, profile, docs, env, stored, cleared, auth>>

\* clearUserData commits the batch and the route answers.
DeleteUserCommit ==
  \E ok \in BOOLEAN :
    /\ clearOp.pc = "commit"
    /\ clearOp' = [pc |-> "idle"]
    /\ req' = [op |-> "DELETE user", user |-> clearOp.user, ok |-> ok]
    /\ calls' = <<"clearUserData">>
    /\ stored' = {e \in stored : e.user # clearOp.user}
    /\ IF ok
       THEN /\ profile' = clearCommit(clearOp.user, clearOp.ids).profile
            /\ docs' = clearCommit(clearOp.user, clearOp.ids).docs
            /\ resp' = DeleteReply([success |-> TRUE])
            /\ cleared' = IF clearOp.user \in Users
                          THEN [cleared EXCEPT ![clearOp.user] = IF clearOp.dirty THEN "raced" ELSE "quiet"]
                          ELSE cleared
       ELSE /\ resp' = DeleteReply(Failure("store error"))
            /\ UNCHANGED <<profile, docs, cleared>>
    /\ UNCHANGED <<now, nextId, env, auth>>

\* ---------------------------------------------------------------------
\* The whole server: every route, with every request of the input sets.
Next ==
  \/ Tick
  \/ PostConversation(AuthHeaders, Bodies(ConvPayloads))
  \/ PostStage(Bodies(StagePayloads))
  \/ PostProfile(Bodies(ProfilePayloads))
  \/ PostContext(Bodies(ContextPayloads))
  \/ PostSessionStage(Bodies(SessionStagePayloads))
  \/ PostSessionContext(Bodies(SessionContextPayloads))
  \/ PostSessionBreakthrough(Bodies(BreakthroughPayloads))
  \/ PostSessionTheme(Bodies(ThemePayloads))
  \/ GetConversation(Users, LimitQueries)
  \/ GetStages(Users, LimitQueries)
  \/ GetContext(Users, LimitQueries)
  \/ GetProfile(Users)
  \/ GetSession(SessionQueries)
  \/ GetCurrentSession(Users)
  \/ Webhook(WebhookHeaders, WebhookBodies)
  \/ ToolsContext(ToolBodies, GatewayModes)
  \/ DeleteUserStart(Users)
  \/ DeleteUserReadStages
  \/ DeleteUserCommit

Spec == Init /\ [][Next]_vars

\* ---------------------------------------------------------------------
\* The conversation routes and the user-data clear, for one user.
OneUser == {"u1"}
OneUserFields == {EmptyObj, [userUUID |-> "u1"]}
BearerOnly == {[authorization |-> <<"Bearer ", "tok">>]}

InitConversation == Init /\ env.secret = <<>> /\ env.dev

NextConversation ==
  \/ Tick
  \/ PostConversation(BearerOnly, {Merge(p, uf) : p \in ConvPayloads, uf \in OneUserFields})
  \/ GetConversation(OneUser, LimitQueries)
  \/ DeleteUserStart(OneUser)
  \/ DeleteUserReadStages
  \/ DeleteUserCommit

SpecConversation == InitConversation /\ [][NextConversation]_vars


\* The limit a GET request asks for.
ReqLimit == QueryLimit(req.query, DefaultHistoryLimit)

\* resp.body, a list of entries, is ordered by time stamp, greatest first.
BodyDescending ==
  \A i, j \in 1..Len(resp.body) : i < j => resp.body[i].timestamp >= resp.body[j].timestamp

\* C1 as claimed: after storeConversation(u, d) returned success, a following
\* getConversationHistory(u, n) with n >= 1 and no clear in between returns a
\* list that holds an entry with d's fields, the store-assigned id and a time
\* stamp, and the list is ordered by time stamp descending.  (Read here of
\* reads the store does not fail.)
C1_AsClaimed ==
  (req.op = "GET conversation" /\ req.ok /\ env.service = "firebase" /\ ReqLimit >= 1) =>
    /\ BodyDescending
    /\ \A e \in stored : e.user = req.user =>
         \E i \in 1..Len(resp.body) :
           /\ resp.body[i].id = e.id
           /\ Has(resp.body[i], "timestamp")
           /\ \A f \in DOMAIN e.d : Has(resp.body[i], f) /\ resp.body[i][f] = e.d[f]

\* C1 (amended): every list getConversationHistory returns is ordered by time
\* stamp descending; and when the read itself succeeds and n is at least the
\* number of u's conversation entries, the list holds, for each d stored with
\* success and not cleared since, an entry with d's fields, except that
\* createdAt is the server's time of the write, timestamp is d's only when d's
\* is truthy (else the server's time), and id is the store-assigned identifier
\* unless d has an id field of its own, which then takes its place.
C1_StoreThenRead ==
  (req.op = "GET conversation") =>
    /\ BodyDescending
    /\ (req.ok /\ env.service = "firebase" /\ ReqLimit >= 1
        /\ Cardinality(DocsOf(req.user, "conversations", NoSession)) <= ReqLimit) =>
         \A e \in stored : e.user = req.user =>
           \E i \in 1..Len(resp.body) :
             /\ resp.body[i].id = (IF Has(e.d, "id") THEN e.d.id ELSE e.id)
             /\ resp.body[i].createdAt = e.at
             /\ resp.body[i].timestamp = StampOr(e.d, e.at)
             /\ \A f \in (DOMAIN e.d) \ {"id", "createdAt", "timestamp"} :
                  Has(resp.body[i], f) /\ resp.body[i][f] = e.d[f]

\* Two conversations were stored at different times and a read returned both.
C1_Witness ==
  /\ req.op = "GET conversation"
  /\ Len(resp.body) = 2
  /\ resp.body[1].timestamp > resp.body[2].timestamp
  /\ Cardinality({e \in stored : e.user = req.user}) = 2

\* ---------------------------------------------------------------------
\* The user-data clear among the writes it is to erase, for one user.
InitClear == Init /\ env.secret = <<>> /\ env.dev

NextClear ==
  \/ PostConversation(BearerOnly, {[userUUID |-> "u1", type |-> "user", content |-> "hi"]})
  \/ PostStage({[userUUID |-> "u1", stage |-> "A"]})
  \/ PostProfile({[userUUID |-> "u1", name |-> "Ann"]})
  \/ GetProfile(OneUser)
  \/ DeleteUserStart(OneUser)
  \/ DeleteUserReadStages
  \/ DeleteUserCommit

SpecClear == InitClear /\ [][NextClear]_vars

\* What the three reads return for user u, whether or not the store fails them.
ReadsEmpty(u) ==
  \A ok \in BOOLEAN :
    /\ getUserProfile(u, ok) = NoProfile
    /\ getConversationHistory(u, DefaultHistoryLimit, ok) = {<<>>}
    /\ getUserStageProgressions(u, DefaultHistoryLimit, ok) = {<<>>}

\* C2 as claimed: once clearUserData(u) has returned success and no write for u
\* has started since, the profile read returns null and the conversation and
\* stage reads return empty lists.
C2_AsClaimed == \A u \in Users : cleared[u] \in {"quiet", "raced"} => ReadsEmpty(u)

\* C2 (amended): the same, provided no write for u reached the store between
\* the call of clearUserData(u) and its return either.
C2_ClearedReadsEmpty == \A u \in Users : cleared[u] = "quiet" => ReadsEmpty(u)

\* A clear returned success after a profile, a conversation or a stage had
\* been written, and the profile route then answered 404.
C2_Witness ==
  /\ cleared["u1"] = "quiet"
  /\ nextId >= 2
  /\ req.op = "GET profile" /\ resp.status = 404


\* ---------------------------------------------------------------------
\* The eight write routes, with and without a user identifier.
WriteUserFields == {EmptyObj, [userUUID |-> ""], [userUUID |-> "u1"]}
WriteBodies(payloads) == {Merge(p, uf) : p \in payloads, uf \in WriteUserFields}

InitWrites == Init /\ env.secret = <<>> /\ env.service = "firebase"

NextWrites ==
  \/ PostConversation(AuthHeaders, WriteBodies({[content |-> "hi", createdAt |-> 0]}))
  \/ PostStage(WriteBodies({[stage |-> "A"]}))
  \/ PostProfile(WriteBodies({[symbolicName |-> "Sun", createdAt |-> 0]}))
  \/ PostContext(WriteBodies(ContextPayloads))
  \/ PostSessionStage(WriteBodies(SessionStagePayloads))
  \/ PostSessionContext(WriteBodies(SessionContextPayloads))
  \/ PostSessionBreakthrough(WriteBodies(BreakthroughPayloads))
  \/ PostSessionTheme(WriteBodies(ThemePayloads))

SpecWrites == InitWrites /\ [][NextWrites]_vars

WriteOps ==
  {"POST conversation", "POST stage", "POST profile", "POST context", "POST session stage",
   "POST session context", "POST session breakthrough", "POST session theme"}

\* The request at hand is a write whose body has no userUUID, or an empty one.
WriteWithoutUser ==
  /\ req.op \in WriteOps
  /\ ("userUUID" \notin DOMAIN req.body \/ req.body.userUUID = "")

\* The request at hand fails the token check of POST /api/memory/conversation.
TokenRefused ==
  /\ req.op = "POST conversation"
  /\ ~env.dev
  /\ ("authorization" \notin DOMAIN req.headers \/ req.headers.authorization[1] # "Bearer ")

\* C3 as claimed: each of the eight write routes answers a body without a
\* (non-empty) userUUID with 400 and an error message, and calls no gateway
\* method.
C3_AsClaimed ==
  WriteWithoutUser =>
    /\ resp.status = 400 /\ "error" \in DOMAIN resp.body
    /\ calls = <<>>

\* C3 (amended): the same, except that POST /api/memory/conversation, outside
\* development mode, answers a request without a Bearer authorization header
\* with 401 before it looks at the body; no gateway method is called then
\* either.
C3_MissingUserRejected ==
  WriteWithoutUser =>
    /\ resp.status = (IF TokenRefused THEN 401 ELSE 400) /\ "error" \in DOMAIN resp.body
    /\ calls = <<>>

\* The theme route has refused a body with an empty userUUID after a document
\* had been written.
C3_Witness ==
  /\ WriteWithoutUser /\ "userUUID" \in DOMAIN req.body
  /\ req.op = "POST session theme"
  /\ resp.status = 400
  /\ nextId >= 1


\* ---------------------------------------------------------------------
\* The eight writes for one user, as the clock advances.
ForUser(payloads) == {Merge(p, [userUUID |-> "u1"]) : p \in payloads}

InitStamps == Init /\ env.secret = <<>> /\ env.dev /\ env.service = "firebase"

NextStamps ==
  \/ Tick
  \/ PostConversation(BearerOnly, ForUser({[content |-> "hi", createdAt |-> 0]}))
  \/ PostStage(ForUser({[stage |-> "A"]}))
  \/ PostProfile(ForUser({[name |-> "Ann"], [symbolicName |-> "Sun", createdAt |-> 0]}))
  \/ PostContext(ForUser(ContextPayloads))
  \/ PostSessionStage(ForUser(SessionStagePayloads))
  \/ PostSessionContext(ForUser(SessionContextPayloads))
  \/ PostSessionBreakthrough(ForUser(BreakthroughPayloads))
  \/ PostSessionTheme(ForUser(ThemePayloads))

SpecStamps == InitStamps /\ [][NextStamps]_vars

\* The documents a step writes carry the server's clock as createdAt.
NewDocsStamped ==
  \A d \in docs' \ docs : "createdAt" \in DOMAIN d.data /\ d.data.createdAt = now

\* C10 as claimed: every successful gateway write (conversation, stage,
\* profile, user context, the four session-scoped ones) leaves the written
\* document with a creation time stamp the server assigned, whatever the
\* payload holds.
C10_AsClaimed ==
  [][/\ NewDocsStamped
     /\ \A u \in Users : profile'[u] # profile[u] =>
          "createdAt" \in DOMAIN profile'[u].data /\ profile'[u].data.createdAt = now]_vars

\* C10 (amended): every successful write to a sub-collection (conversation,
\* stage, user context, the four session-scoped ones) leaves the written
\* document with createdAt set to the server's time, whatever the payload
\* holds; a successful profile write sets lastUpdated to the server's time and
\* no creation time stamp: the profile document has a createdAt only when a
\* payload supplied one, and then with the payload's value.
C10_CreationStamp ==
  [][/\ NewDocsStamped
     /\ \A u \in Users : profile'[u] # profile[u] =>
          LET old == IF profile[u].exists THEN profile[u].data ELSE EmptyObj
              new == profile'[u].data
              d == req'.body
          IN /\ new.lastUpdated = now
             /\ ("createdAt" \in DOMAIN new) = ("createdAt" \in DOMAIN d \/ "createdAt" \in DOMAIN old)
             /\ "createdAt" \in DOMAIN new =>
                  new.createdAt = (IF "createdAt" \in DOMAIN d THEN d.createdAt ELSE old.createdAt)]_vars

\* A session-scoped write whose payload names a createdAt of its own has
\* succeeded, and the document holds the server's time instead.
C10_Witness ==
  /\ req.op = "POST session theme"
  /\ "createdAt" \in DOMAIN req.body
  /\ resp.status = 200 /\ resp.body.success
  /\ \E d \in docs : d.id = resp.body.id /\ d.data.createdAt = req.at /\ d.data.createdAt # req.body.createdAt


\* ---------------------------------------------------------------------
\* The context tool over a user with data (u1) and one without (u2); at most
\* one of the tool's four lookups fails.
OneFailure == {m \in GatewayModes : Cardinality({c \in Categories : m[c] = "fail"}) =< 1}

InitTool == Init /\ env.secret = <<>> /\ env.dev /\ env.service = "firebase"

NextTool ==
  \/ Tick
  \/ PostProfile(ForUser({[name |-> "Ann", currentStage |-> "A"]}))
  \/ PostConversation(BearerOnly, ForUser({[type |-> "user", content |-> "integration", stage |-> "A"]}))
  \/ PostStage(ForUser({[stage |-> "A"]}))
  \/ ToolsContext({[user_id |-> "u1"], [user_id |-> "u2", context_type |-> "all"],
                   [user_id |-> "u1", context_type |-> "stages"]}, OneFailure)

SpecTool == InitTool /\ [][NextTool]_vars

\* The key of a category's section in the tool's context.
SectionKey(c) == IF c = "conversation" THEN "conversations" ELSE c

\* The tool answered a request for every category.
ToolAnsweredAll ==
  /\ req.op = "POST tools/context"
  /\ resp.status = 200
  /\ ToolParams(req.body).context_type = "all"

ToolContext == resp.body.data.context

\* Section k of context ctx is the one the request yields when no lookup fails.
AsWithoutFailure(ctx, k) ==
  \E r \in execute(ToolParams(req.body), AllOk) :
    /\ (k \in DOMAIN ctx) = (k \in DOMAIN r.data.context)
    /\ k \in DOMAIN ctx => ctx[k] = r.data.context[k]

\* C4 as claimed: with context_type=all, when the lookup of one category
\* fails, the call returns success:true, that category's section holds an
\* error marker, and the other three sections hold what they would hold had
\* the lookup succeeded.
C4_AsClaimed ==
  ToolAnsweredAll =>
    \A c \in Categories : req.mode = [AllOk EXCEPT ![c] = "fail"] =>
      /\ resp.body.success
      /\ SectionKey(c) \in DOMAIN ToolContext
      /\ "error" \in DOMAIN ToolContext[SectionKey(c)]
      /\ \A c2 \in Categories \ {c} : AsWithoutFailure(ToolContext, SectionKey(c2))

\* The user the tool was asked about has no profile and no documents.
NoDataForUser ==
  /\ ~profile[req.body.user_id].exists
  /\ \A d \in docs : d.user # req.body.user_id

\* C5 as claimed: with context_type=all, for a user without profile,
\* conversations, stages and session records, the call returns success:true
\* and the context holds an empty or default section for each of
\* conversations, profile, stages and session.
C5_AsClaimed ==
  (ToolAnsweredAll /\ NoDataForUser) =>
    /\ resp.body.success
    /\ DOMAIN ToolContext = {"conversations", "profile", "stages", "session"}

\* C5 (amended): with context_type=all, for a user without profile,
\* conversations, stages and session records, the call returns success:true
\* and the context holds an empty or default section for each of
\* conversations, stages and session, and no profile section.
C5_EmptyUserDefaults ==
  (ToolAnsweredAll /\ NoDataForUser) =>
    /\ resp.body.success
    /\ DOMAIN ToolContext = {"conversations", "stages", "session"}
    /\ ToolContext.conversations =
         [total |-> 0, recent_messages |-> <<>>,
          summary |-> [text |-> "No previous conversation history found."]]
    /\ ToolContext.stages =
         [current_stage |-> DefaultStage, progression_notes |-> "Stage progression tracking active",
          total_progressions |-> 0]
    /\ ToolContext.session =
         [session_id |-> <<"session_", req.at>>, stage_progressions |-> <<>>, user_context |-> <<>>,
          breakthrough_moments |-> <<>>, therapeutic_themes |-> <<>>,
          summary |-> <<[part |-> "New session, no data recorded yet."]>>]

\* The tool has answered for the user without data while another user had a
\* profile, and none of its lookups failed.
C5_Witness ==
  /\ ToolAnsweredAll /\ NoDataForUser
  /\ req.mode = AllOk
  /\ profile["u1"].exists
  /\ resp.body.success


\* ---------------------------------------------------------------------
\* The webhook, with and without a configured secret, on each service.
InitWebhook == Init /\ env.dev

NextWebhook ==
  \/ Webhook(WebhookHeaders, WebhookBodies)

SpecWebhook == InitWebhook /\ [][NextWebhook]_vars

\* The secret header of request r: x-elevenlabs-signature, else authorization;
\* <<>> when the request has neither.
SecretHeader(r) ==
  IF "signature" \in DOMAIN r.headers /\ r.headers.signature # <<>> THEN r.headers.signature
  ELSE IF "authorization" \in DOMAIN r.headers THEN r.headers.authorization
  ELSE <<>>

\* Request r passes the secret check.
PassesSecret(r) == env.secret = <<>> \/ Includes(SecretHeader(r), env.secret)

\* Body b has field f with a non-empty value.
Carries(b, f) == f \in DOMAIN b /\ b[f] # ""

Acknowledged(r) == r.status = 200 /\ r.body.success = TRUE

\* C6: a webhook request that passes the secret check but lacks message or
\* user_id is answered with {success: true}, causes no storeConversation call
\* and leaves the stored conversation entries as they were.
C6_NothingToStore ==
  [][(/\ req'.op = "POST webhook"
      /\ PassesSecret(req')
      /\ ~(Carries(req'.body, "user_id") /\ Carries(req'.body, "message")))
     => /\ Acknowledged(resp')
        /\ calls' = <<>>
        /\ docs' = docs]_vars

\* A request with a user but an empty message was acknowledged while an
\* entry stored earlier was still there.
C6_Witness ==
  /\ req.op = "POST webhook"
  /\ req.body = [user_id |-> "u1", message |-> ""]
  /\ Acknowledged(resp)
  /\ calls = <<>>
  /\ docs # {}

\* C7: with a secret configured, a webhook request whose secret header
\* (x-elevenlabs-signature, else authorization) is missing or does not contain
\* the secret is answered 401 and writes nothing; with no secret configured no
\* request is answered 401.
C7_SecretCheck ==
  [][req'.op = "POST webhook" =>
       /\ (env.secret # <<>> /\ ~Includes(SecretHeader(req'), env.secret)) =>
            (resp'.status = 401 /\ calls' = <<>> /\ docs' = docs)
       /\ env.secret = <<>> => resp'.status # 401]_vars

\* A request that names a user and a message, but carries no secret header,
\* was refused.
C7_Witness ==
  /\ req.op = "POST webhook"
  /\ env.secret # <<>>
  /\ req.headers = EmptyObj
  /\ Carries(req.body, "user_id") /\ Carries(req.body, "message")
  /\ resp.status = 401

\* C8: a webhook request that passes the secret check and carries user_id and
\* message is answered with {success: true}, whether storeConversation
\* succeeds, returns a failure result or throws.
C8_AlwaysAcknowledged ==
  (/\ req.op = "POST webhook"
   /\ PassesSecret(req)
   /\ Carries(req.body, "user_id") /\ Carries(req.body, "message"))
  => /\ Acknowledged(resp)
     /\ "error" \notin DOMAIN resp.body
     /\ calls = <<"storeConversation">>

\* The gateway returned a failure result for a request that was to be stored,
\* and the request was acknowledged.
C8_Witness ==
  /\ req.op = "POST webhook"
  /\ env.service = "firebase" /\ env.secret # <<>>
  /\ req.outcome = "fail"
  /\ Carries(req.body, "user_id") /\ Carries(req.body, "message")
  /\ Acknowledged(resp)
  /\ calls = <<"storeConversation">>


\* ---------------------------------------------------------------------
\* Every gateway method, on a store that may fail any call.
InitGateway == Init /\ env.secret = <<>> /\ env.dev /\ env.service = "firebase"

NextGateway ==
  \/ PostConversation(BearerOnly, ForUser({[content |-> "hi"]}))
  \/ PostStage(ForUser({[stage |-> "A"]}))
  \/ PostProfile(ForUser({[name |-> "Ann"]}))
  \/ PostContext(ForUser({[note |-> "n"]}))
  \/ PostSessionStage(ForUser({[stage |-> "A"]}))
  \/ PostSessionContext(ForUser({[note |-> "n"]}))
  \/ PostSessionBreakthrough(ForUser({[moment |-> "m"]}))
  \/ PostSessionTheme(ForUser({[theme |-> "t"]}))
  \/ GetConversation(OneUser, {EmptyObj})
  \/ GetStages(OneUser, {EmptyObj})
  \/ GetContext(OneUser, {EmptyObj})
  \/ GetProfile(OneUser)
  \/ GetSession({[userUUID |-> "u1"]})
  \/ DeleteUserStart(OneUser)
  \/ DeleteUserReadStages
  \/ DeleteUserCommit

SpecGateway == InitGateway /\ [][NextGateway]_vars

\* The result of a write the document store failed: {success: false, error},
\* and the store as it was.
FailedWrite(out) ==
  /\ out.result.success = FALSE /\ "error" \in DOMAIN out.result
  /\ out.docs = docs /\ out.profile = profile

GatewayPayloads == {[content |-> "hi"], [note |-> "n", createdAt |-> 0], EmptyObj}

\* C9: when the underlying document store fails, every store method and
\* clearUserData return {success: false, error}; getConversationHistory,
\* getUserStageProgressions and getUserContext return [], getUserProfile
\* returns null and getSessionData returns {}.
C9_FailuresContained ==
  /\ \A u \in Users, d \in GatewayPayloads :
       /\ FailedWrite(storeConversation(u, d, FALSE))
       /\ FailedWrite(storeStageProgression(u, d, FALSE))
       /\ FailedWrite(storeUserProfile(u, d, FALSE))
       /\ FailedWrite(storeUserContext(u, d, FALSE))
       /\ \A sid \in Sessions :
            /\ FailedWrite(storeSessionStageProgression(u, sid, d, FALSE))
            /\ FailedWrite(storeSessionUserContext(u, sid, d, FALSE))
            /\ FailedWrite(storeBreakthroughMoment(u, sid, d, FALSE))
            /\ FailedWrite(storeTherapeuticTheme(u, sid, d, FALSE))
  /\ \A u \in Users :
       /\ \A n \in {1, DefaultContextLimit, DefaultHistoryLimit} :
            /\ getConversationHistory(u, n, FALSE) = {<<>>}
            /\ getUserStageProgressions(u, n, FALSE) = {<<>>}
            /\ getUserContext(u, n, FALSE) = {<<>>}
       /\ getUserProfile(u, FALSE) = NoProfile
       /\ \A sid \in Sessions, dataType \in {"all", "stages", "themes"} :
            getSessionData(u, sid, dataType, FALSE) = {EmptyObj}
  /\ (req.op = "DELETE user" /\ ~req.ok) =>
       /\ resp.body.success = FALSE /\ "error" \in DOMAIN resp.body
       /\ calls = <<"clearUserData">>
  /\ (req.op \in {"GET conversation", "GET stages", "GET context"} /\ ~req.ok) => resp.body = <<>>
  /\ (req.op = "GET session" /\ ~req.ok) => resp.body = EmptyObj
  /\ (req.op = "GET profile" /\ ~req.ok) => resp.status = 404

\* The store failed the session read of a user who has a session document,
\* and the route answered {}.
C9_Witness ==
  /\ req.op = "GET session" /\ ~req.ok
  /\ \E d \in docs : d.user = "u1" /\ d.sid # NoSession
  /\ profile["u1"].exists
  /\ resp.status = 200 /\ resp.body = EmptyObj


\* ---------------------------------------------------------------------
\* The list reads, over documents written at different times.
NextRetrieval ==
  \/ Tick
  \/ PostConversation(BearerOnly, ForUser({[content |-> "hi"]}))
  \/ PostStage(ForUser({[stage |-> "A"]}))
  \/ PostSessionTheme(ForUser({[theme |-> "t"]}))
  \/ GetConversation(OneUser, LimitQueries)
  \/ GetStages(OneUser, LimitQueries)
  \/ GetSession({[userUUID |-> "u1"]})

SpecRetrieval == InitGateway /\ [][NextRetrieval]_vars

\* List l of entries is ordered by time stamp, greatest first.
Descending(l) == \A i, j \in 1..Len(l) : i < j => l[i].timestamp >= l[j].timestamp

\* C11 as claimed: every list the gateway's retrievals return (conversation
\* history, stage progressions, user context, each list inside session data)
\* is ordered most recent first and has at most as many entries as the caller
\* asked for.
C11_AsClaimed ==
  /\ (req.op \in {"GET conversation", "GET stages", "GET context"}) =>
       (Descending(resp.body) /\ Len(resp.body) =< ReqLimit)
  /\ (req.op = "GET session" /\ resp.status = 200) =>
       \A k \in DOMAIN resp.body : Descending(resp.body[k])


\* ---------------------------------------------------------------------
\* Profile writes that name different fields, and the clear.
NextProfile ==
  \/ Tick
  \/ PostProfile(ForUser(ProfilePayloads \cup {[currentStage |-> "B"]}))
  \/ PostConversation(BearerOnly, ForUser({[content |-> "hi"]}))
  \/ GetProfile(OneUser)
  \/ DeleteUserStart(OneUser)
  \/ DeleteUserReadStages
  \/ DeleteUserCommit

SpecProfile == InitGateway /\ [][NextProfile]_vars

\* C12: storeUserProfile merges: a field of u's profile keeps its value in
\* every step except a profile write for u that names it (the write itself
\* names lastUpdated); and an existing profile of u ceases to exist only in a
\* step in which clearUserData(u) succeeds.
C12_ProfileMerges ==
  [][\A u \in Users :
       /\ (profile[u].exists /\ profile'[u].exists) =>
            \A f \in DOMAIN profile[u].data :
              /\ f \in DOMAIN profile'[u].data
              /\ profile'[u].data[f] # profile[u].data[f] =>
                   /\ req'.op = "POST profile" /\ req'.body.userUUID = u
                   /\ (f \in DOMAIN req'.body \/ f = "lastUpdated")
       /\ (profile[u].exists /\ ~profile'[u].exists) =>
            /\ req'.op = "DELETE user" /\ req'.user = u
            /\ resp'.body.success = TRUE]_vars

\* Three profile writes naming different fields have left all their fields,
\* the stage as the last one wrote it.
C12_Witness ==
  /\ profile["u1"].exists
  /\ DOMAIN profile["u1"].data = {"name", "currentStage", "symbolicName", "createdAt", "lastUpdated"}
  /\ profile["u1"].data.name = "Ann"
  /\ profile["u1"].data.currentStage = "B"
  /\ profile["u1"].data.lastUpdated = 2


\* ---------------------------------------------------------------------
\* Conversation writes by route and by webhook for two users, among other
\* operations.
NextAppend ==
  \/ Tick
  \/ PostConversation(BearerOnly, {[userUUID |-> "u1", content |-> "hi"], [userUUID |-> "u2", content |-> "hi"]})
  \/ Webhook({EmptyObj}, {[user_id |-> "u1", message |-> "hi", agent_id |-> "a1", conversation_id |-> "c1"]})
  \/ PostStage(ForUser({[stage |-> "A"]}))
  \/ GetConversation(OneUser, {EmptyObj})
  \/ DeleteUserStart(Users)
  \/ DeleteUserReadStages
  \/ DeleteUserCommit

SpecAppend == InitClear /\ [][NextAppend]_vars

\* C13: conversation entries are append-only per user: a successful
\* storeConversation(u, d) (its result names an identifier no document had)
\* adds exactly one entry, under that identifier; every step leaves each existing entry of u as it was, except
\* a successful clearUserData(u); and entries appear only through
\* storeConversation, one at a time.
C13_AppendOnly ==
  [][\A u \in Users :
       LET old == {d \in docs : d.user = u /\ d.coll = "conversations"}
           new == {d \in docs' : d.user = u /\ d.coll = "conversations"}
       IN /\ ~(old \subseteq new) =>
               (req'.op = "DELETE user" /\ req'.user = u /\ resp'.body.success = TRUE)
          /\ (new \ old # {}) =>
               /\ calls' = <<"storeConversation">>
               /\ Cardinality(new \ old) = 1
               /\ \A d \in new \ old : \A e \in docs : e.id # d.id
          /\ (/\ req'.op = "POST conversation" /\ req'.body.userUUID = u
              /\ resp'.status = 200 /\ resp'.body.success = TRUE
              /\ \A e \in docs : e.id # resp'.body.id) =>
               /\ Cardinality(new \ old) = 1
               /\ \A d \in new \ old : d.id = resp'.body.id]_vars

\* A user holds two entries written at the same time, one by the route and
\* one by the webhook, after another user's data was cleared.
C13_Witness ==
  /\ \E d, e \in docs :
       /\ d.user = "u1" /\ e.user = "u1" /\ d.id # e.id
       /\ d.coll = "conversations" /\ e.coll = "conversations"
       /\ d.data.createdAt = e.data.createdAt
       /\ "metadata" \in DOMAIN d.data /\ "metadata" \notin DOMAIN e.data
  /\ cleared["u2"] = "quiet"


\* ---------------------------------------------------------------------
\* The context tool asked with limits inside and outside the schema's range.
MinToolLimit == 1
MaxToolLimit == 50

LimitBodies ==
  {[user_id |-> "u1"]} \cup
  {[user_id |-> "u1", limit |-> n] : n \in {MinToolLimit - 1, MinToolLimit, MaxToolLimit, MaxToolLimit + 1}}

NextLimit ==
  \/ Tick
  \/ PostConversation(BearerOnly, ForUser({[type |-> "user", content |-> "hi"]}))
  \/ PostStage(ForUser({[stage |-> "A"]}))
  \/ ToolsContext(LimitBodies, {AllOk})

SpecLimit == InitGateway /\ [][NextLimit]_vars

\* C14 as claimed: the limit a context-aggregation call hands to the
\* gateway's reads lies in 1..50, whatever limit the caller supplied, and is
\* 10 when the caller supplied none.
C14_AsClaimed ==
  (req.op = "POST tools/context" /\ resp.status = 200) =>
    /\ ToolLimit(ToolParams(req.body)) \in MinToolLimit..MaxToolLimit
    /\ "limit" \notin DOMAIN req.body => ToolLimit(ToolParams(req.body)) = DefaultToolLimit


\* ---------------------------------------------------------------------
\* No two stored documents have the same time stamp (the order of a read is
\* then fixed by the data).
NoTies == \A d, e \in docs : d # e => d.data.timestamp # e.data.timestamp

\* C15 as claimed: ContextTool.execute changes no stored data, and a second
\* call with the parameters of the first, against the same stored data,
\* returns the same session identifier, the same context sections and the
\* same instructions.
C15_AsClaimed ==
  [][(req'.op = "POST tools/context" /\ resp'.status = 200)
     => /\ docs' = docs /\ profile' = profile
        /\ (/\ req.op = "POST tools/context" /\ resp.status = 200
            /\ req'.body = req.body
            /\ req.mode = AllOk /\ req'.mode = AllOk
            /\ NoTies)
           => /\ resp'.body.data.session_id = resp.body.data.session_id
              /\ resp'.body.data.context = resp.body.data.context
              /\ resp'.body.instructions = resp.body.instructions]_vars


\* ---------------------------------------------------------------------
\* A response that tells the caller the storage operation failed: status 500,
\* or a JSON object {success: false, error}.
ErrorStatus == 500
SoftFailure(b) == "success" \in DOMAIN b /\ b.success = FALSE /\ "error" \in DOMAIN b

\* C16 as claimed: a valid request to a memory route whose storage operation
\* fails is answered with a 500 error body or with {success: false, error},
\* never with a response that looks like success or like absence of data.
\* (The list routes answer with a JSON array, which is never a
\* {success: false, error} object.)
C16_AsClaimed ==
  /\ (req.op \in {"GET conversation", "GET stages", "GET context"} /\ ~req.ok) =>
       resp.status = ErrorStatus
  /\ (req.op \in {"GET session", "GET profile", "DELETE user"} /\ ~req.ok) =>
       (resp.status = ErrorStatus \/ SoftFailure(resp.body))
  /\ (req.op \in WriteOps /\ resp.status = 200) =>
       (resp.body.success = TRUE \/ SoftFailure(resp.body))


\* ---------------------------------------------------------------------
\* The tools route on each of the services the server can start with.
NextToolsRef ==
  \/ Tick
  \/ PostConversation(BearerOnly, ForUser({[type |-> "user", content |-> "hi"]}))
  \/ PostProfile(ForUser({[name |-> "Ann"]}))
  \/ ToolsContext({EmptyObj, [user_id |-> "u1"], [user_id |-> "u1", context_type |-> "profile"]}, {AllOk})

SpecToolsRef == InitClear /\ [][NextToolsRef]_vars

\* C17 as claimed: the tools route's reference to the storage client is set
\* once before the first request and never again, so that every request to
\* POST /api/tools/context finds the same non-null client.
C17_AsClaimed ==
  [][/\ ToolsServiceSet' = ToolsServiceSet
     /\ req'.op = "POST tools/context" =>
          (ToolsServiceSet' /\ resp'.status # ErrorStatus)]_vars

\* C17 (amended): the reference is assigned at most once, before the first
\* request, and never afterwards: when the gateway was constructed at start-up
\* every request to POST /api/tools/context finds that same client; when the
\* server fell back to a stand-in service the reference is never assigned and
\* every such request is answered 500 'Firebase service not initialized'.
C17_ReferenceFixed ==
  [][/\ ToolsServiceSet' = ToolsServiceSet
     /\ req'.op = "POST tools/context" =>
          IF env.service = "firebase"
          THEN ToolsServiceSet' /\ resp'.status # ErrorStatus
          ELSE /\ ~ToolsServiceSet'
               /\ resp'.status = ErrorStatus
               /\ resp'.body = [error |-> "Firebase service not initialized"]]_vars

\* On the gateway, the tool has answered for a user after that user's
\* profile was stored.
C17_Witness ==
  /\ env.service = "firebase"
  /\ req.op = "POST tools/context" /\ resp.status = 200
  /\ "profile" \in DOMAIN resp.body.data.context
  /\ now = 2


\* ---------------------------------------------------------------------
\* ContextTool.execute called as a tool, with the parameters of its schema
\* (the tools route passes no session_id on), over session-scoped writes.
ToolExecute(P) ==
  \E params \in P :
    \E out \in execute(params, AllOk) :
      /\ Handled([Reply(200, out) EXCEPT !.calls = executeCalls(params)],
                 [op |-> "execute", params |-> params, at |-> now], "")
      /\ UNCHANGED stored

NextSession ==
  \/ Tick
  \/ PostSessionStage(ForUser({[stage |-> "A"]}))
  \/ PostSessionContext(ForUser({[note |-> "n"]}))
  \/ PostSessionBreakthrough(ForUser({[moment |-> "m"]}))
  \/ PostSessionTheme(ForUser({[theme |-> "t"]}))
  \/ ToolExecute({[user_id |-> "u1", session_id |-> <<"s1">>],
                  [user_id |-> "u1", session_id |-> <<"s1">>, context_type |-> "session"]})

SpecSession == InitGateway /\ [][NextSession]_vars

\* The list of the tool's session section that sub-collection coll feeds.
SessionListOf(coll) ==
  CASE coll = "stages" -> "stage_progressions"
    [] coll = "context" -> "user_context"
    [] coll = "breakthroughs" -> "breakthrough_moments"
    [] OTHER -> "therapeutic_themes"

\* C18 as claimed: once a session stage, context entry, breakthrough moment
\* or therapeutic theme is stored for session S of user U, ContextTool.execute
\* for U with session_id = S and context_type session or all returns it in the
\* matching list of the session section, and the session summary is not the
\* 'no data recorded' default.
C18_AsClaimed ==
  (req.op = "execute" /\ resp.body.success = TRUE) =>
    \A d \in docs :
      (d.user = req.params.user_id /\ d.sid = req.params.session_id) =>
        LET section == resp.body.data.context.session
        IN /\ \E i \in 1..Len(section[SessionListOf(d.coll)]) :
                section[SessionListOf(d.coll)][i] = Entry(d)
           /\ section.summary # <<[part |-> "New session, no data recorded yet."]>>


\* ---------------------------------------------------------------------
\* The conversation and stage documents of user u now in the store.
ClearableDocs(u) == DocsOf(u, "conversations", NoSession) \cup DocsOf(u, "stages", NoSession)

\* C19 as claimed: in every interleaving of clearUserData(u) with
\* storeConversation(u, .) or storeStageProgression(u, .), once clearUserData
\* has returned success no conversation or stage entry of u whose store
\* completed before the batch commit is still readable.
C19_AsClaimed ==
  (req.op = "DELETE user" /\ resp.body.success = TRUE) => ClearableDocs(req.user) = {}

\* C19 (amended): in every such interleaving, once clearUserData has returned
\* success no conversation or stage entry of u whose store completed before
\* clearUserData read its collection is still readable: each read puts every
\* document then in its collection into the batch, and the commit removes
\* every batched document; an entry stored after the read of its collection
\* survives the commit.
C19_ClearsWhatItRead ==
  [][/\ (clearOp.pc = "idle" /\ clearOp'.pc = "stages") =>
          \A d \in DocsOf(clearOp'.user, "conversations", NoSession) : d.id \in clearOp'.ids
     /\ (clearOp.pc = "stages" /\ clearOp'.pc = "commit") =>
          /\ clearOp.ids \subseteq clearOp'.ids
          /\ \A d \in DocsOf(clearOp.user, "stages", NoSession) : d.id \in clearOp'.ids
     /\ (clearOp.pc = "commit" /\ clearOp'.pc = "idle" /\ resp'.body.success = TRUE) =>
          /\ \A d \in docs' : d.id \notin clearOp.ids
          /\ \A d \in ClearableDocs(clearOp.user) : d.id \notin clearOp.ids => d \in docs']_vars

\* A clear returned success after it had removed an entry it read, while an
\* entry stored between that read and the commit is still in the store.
C19_Witness ==
  /\ req.op = "DELETE user" /\ resp.body.success = TRUE
  /\ cleared[req.user] = "raced"
  /\ nextId >= 2
  /\ Cardinality(ClearableDocs(req.user)) = 1


\* ---------------------------------------------------------------------
\* C20: the success field of the DELETE /api/memory/user/:userUUID response
\* equals the success of clearUserData: it is true only when the batch was
\* committed, the user document being gone, and when the clear fails (a read
\* or the commit fails, or the server runs on a stand-in service) the
\* response carries success false together with the gateway's error.
C20_SuccessReflectsClear ==
  req.op = "DELETE user" =>
    /\ resp.status = 200
    /\ resp.body.success = (env.service = "firebase" /\ req.ok)
    /\ IF resp.body.success
       THEN /\ ~Has(resp.body, "error")
            /\ profile[req.user] = NoProfile
            /\ cleared[req.user] \in {"quiet", "raced"}
       ELSE resp.body.error = OnService("store error", MockError)

\* A clear of a user with stored data failed in the store, and the route
\* answered success false with the error, the data still stored.
C20_Witness ==
  /\ req.op = "DELETE user" /\ env.service = "firebase"
  /\ resp.body = [success |-> FALSE, message |-> "User data cleared", error |-> "store error"]
  /\ ClearableDocs(req.user) # {}
  /\ profile[req.user] # NoProfile


\* ---------------------------------------------------------------------
\* C21: POST /api/tools/context executes the context tool only when the
\* service reference is set, the get_user_context tool is registered and
\* user_id is present; otherwise it answers 500 (service not initialised),
\* 500 (tool not available) or 400 (user_id required), checked in that order,
\* and performs no storage read.
C21_GuardsInOrder ==
  req.op = "POST tools/context" =>
    LET refused(status, msg) ==
          /\ resp = [status |-> status, body |-> [error |-> msg]]
          /\ calls = <<>>
    IN /\ ~ToolsServiceSet => refused(ErrorStatus, "Firebase service not initialized")
       /\ (ToolsServiceSet /\ ~ToolsRegistered) => refused(ErrorStatus, "Context tool not available")
       /\ (ToolsServiceSet /\ ToolsRegistered /\ ~TruthyStr(req.body, "user_id")) =>
            refused(400, "user_id is required")
       /\ (resp.status = 200 \/ calls # <<>>) =>
            /\ ToolsServiceSet /\ ToolsRegistered /\ TruthyStr(req.body, "user_id")
            /\ resp.body.success = TRUE
            /\ resp.body.data.user_id = req.body.user_id

\* A request without user_id reached a server whose service reference was
\* never set: the first check answered, not the body's.
C21_Witness ==
  /\ req.op = "POST tools/context" /\ req.body = EmptyObj
  /\ env.service = "initfailed"
  /\ resp = [status |-> ErrorStatus, body |-> [error |-> "Firebase service not initialized"]]
  /\ calls = <<>>


\* ---------------------------------------------------------------------
\* The AuthService object by itself; the server does not construct it.
NotAuth == <<now, nextId, profile, docs, env, clearOp, req, resp, calls, stored, cleared>>

\* onAuthStateChanged(callback): push, and hand back the unsubscribe function.
onAuthStateChanged(C) ==
  \E cb \in C :
    /\ Len(auth.subs) < MaxListeners
    /\ auth' = [auth EXCEPT !.authStateListeners = Append(@, cb),
                            !.subs = Append(@, [cb |-> cb, live |-> TRUE])]
    /\ UNCHANGED NotAuth

\* The function returned for registration i is called:
\* authStateListeners = authStateListeners.filter(l => l !== callback).
Unsubscribe ==
  \E i \in 1..Len(auth.subs) :
    /\ auth' = [auth EXCEPT !.authStateListeners = SelectSeq(@, LAMBDA l : l # auth.subs[i].cb),
                            !.subs[i].live = FALSE]
    /\ UNCHANGED NotAuth

\* The observer the constructor registers: currentUser = user, then
\* authStateListeners.forEach(listener => listener(user)). A listener is the
\* caller's code and may throw, which ends the forEach: k is the position of
\* the first listener that throws, 0 when none does.
AuthStateChange(U) ==
  \E user \in U :
    \E k \in 0..Len(auth.authStateListeners) :
      LET last == IF k = 0 THEN Len(auth.authStateListeners) ELSE k
      IN /\ user # auth.currentUser
         /\ auth' = [auth EXCEPT
                       !.currentUser = user,
                       !.delivered = [i \in 1..last |->
                                        [cb |-> auth.authStateListeners[i], user |-> user, saw |-> user]]]
         /\ UNCHANGED NotAuth

NextAuth ==
  \/ onAuthStateChanged(Callbacks)
  \/ Unsubscribe
  \/ AuthStateChange(AuthUsers)

SpecAuth == InitClear /\ [][NextAuth]_vars

\* C22 as claimed: on every auth-state change currentUser is set to the new
\* user before any listener runs, and each listener that is registered and
\* not yet unsubscribed at that moment is called exactly once with that user,
\* in registration order; a callback whose unsubscribe function has been
\* called is not called for any later change.
C22_AsClaimed ==
  [][auth'.currentUser # auth.currentUser =>
       LET live == SelectSeq(auth.subs, LAMBDA r : r.live)
       IN /\ Len(auth'.delivered) = Len(live)
          /\ \A i \in 1..Len(live) :
               auth'.delivered[i] =
                 [cb |-> live[i].cb, user |-> auth'.currentUser, saw |-> auth'.currentUser]]_vars


\* ---------------------------------------------------------------------
\* C23: outside development mode, a POST /api/memory/conversation request
\* without an Authorization header starting with 'Bearer ' is answered 401
\* and never reaches storeConversation (no gateway call, the store as it was);
\* in development mode, and with such a header, no request is answered 401.
C23_TokenGate ==
  [][req'.op = "POST conversation" =>
       LET bearer == /\ Has(req'.headers, "authorization")
                     /\ StartsWith(req'.headers.authorization, "Bearer ")
       IN IF ~env.dev /\ ~bearer
          THEN /\ resp' = [status |-> 401, body |-> [error |-> "No auth token provided"]]
               /\ calls' = <<>>
               /\ docs' = docs /\ nextId' = nextId /\ stored' = stored
          ELSE resp'.status # 401]_vars

\* Outside development mode a conversation of u1 sent with a Basic header was
\* refused, after another one had been stored.
C23_Witness ==
  /\ ~env.dev
  /\ req.op = "POST conversation"
  /\ req.headers = [authorization |-> <<"Basic ", "tok">>]
  /\ TruthyStr(req.body, "userUUID")
  /\ resp.status = 401 /\ calls = <<>>
  /\ \E d \in docs : d.coll = "conversations"


\* ---------------------------------------------------------------------
\* Two callers: u2, and one whose identifier is a path into u1's session;
\* u1 writes stages into its session s1.
NextPartition ==
  \/ PostSessionStage(ForUser({[stage |-> "A"]}))
  \/ PostStage({[userUUID |-> "u2", stage |-> "A"], [userUUID |-> NestedId, stage |-> "B"]})
  \/ GetStages({"u2", NestedId}, {EmptyObj})
  \/ GetSession({[userUUID |-> "u1"]})
  \/ DeleteUserStart({"u2", NestedId})
  \/ DeleteUserReadStages
  \/ DeleteUserCommit

SpecPartition == InitGateway /\ [][NextPartition]_vars

\* The identifier the gateway was called with for request r.
CalledFor(r) ==
  IF Has(r, "user") THEN r.user
  ELSE IF Has(r, "body") THEN BodyUser(r.body)
  ELSE IF Has(r, "query") /\ Has(r.query, "userUUID") THEN r.query.userUUID
  ELSE ""

RecordsIn(D, v) == {d \in D : d.user = v}

\* C24 as claimed: the user identifier partitions all data: for distinct
\* users u and v, no gateway operation called for u adds, changes or removes
\* a profile, conversation, stage, context or session record of v, and no
\* read for u returns a record of v.
C24_AsClaimed ==
  [][\A v \in Users :
       CalledFor(req') # v =>
         /\ RecordsIn(docs', v) = RecordsIn(docs, v)
         /\ profile'[v] = profile[v]
         /\ (req'.op = "GET stages" /\ resp'.status = 200) =>
              \A i \in 1..Len(resp'.body) : \A d \in RecordsIn(docs, v) : resp'.body[i].id # d.id]_vars

====
